---- MODULE Spec2Model ----
(***************************************************************************)
(* Model of the programming-bitcoin-rust crates: field_element, secp256k1, *)
(* key, base58 and the hasher adapter.                                     *)
(*                                                                         *)
(* Scale.  The code works on 256-bit numbers held in 32-byte arrays.  The  *)
(* model keeps real bytes (radix 256) and every byte-level rule of the     *)
(* code, and shrinks the width of a scalar from 32 bytes to ScalarLen      *)
(* bytes.  PRIME and ORDER are the parameters of the curve y^2 = x^3 + 7   *)
(* of that width: PRIME = 7 (mod 12), the group has prime order ORDER, and *)
(* ORDER < PRIME < 256^ScalarLen, as for secp256k1.  So "a value below     *)
(* 2^248" of the code is "a value below 256^(ScalarLen-1)" here.           *)
(*                                                                         *)
(* The hash primitives (sha2, hmac crates) are external.  They are         *)
(* modelled by fixed deterministic mixing functions of the same shape:     *)
(* bytes in, a fixed number of bytes out.                                  *)
(*                                                                         *)
(* A Rust panic is modelled by a distinguished value: FePanic and          *)
(* PointPanic inside the arithmetic (every operation on a panicked operand *)
(* is panicked), and the outcome Panic at the level of the API.            *)
(***************************************************************************)
EXTENDS Integers, Sequences, FiniteSets, TLC

\* ------------------------------------------------------------------------
\* Program constants
\* ------------------------------------------------------------------------

\* u8: one byte holds a value in 0..BYTE-1
BYTE == 256

\* width in bytes of a scalar, a coordinate, a digest z and an HMAC output
\* ([u8; 32] in the code)
ScalarLen == 2

\* secp256k1::PRIME at the model's scale
PRIME == 44647

\* secp256k1::ORDER at the model's scale
ORDER == 44563

\* x and y of Secp256k1::Generator at the model's scale
GX == 31169

GY == 20372

\* ------------------------------------------------------------------------
\* Outcomes of a call: Ok(v), Err (an error value), Panic (the call aborts)
\* ------------------------------------------------------------------------

Ok(v) == [tag |-> "Ok", val |-> <<v>>]

Err == [tag |-> "Err", val |-> <<>>]

Panic == [tag |-> "Panic", val |-> <<>>]

NoCall == [tag |-> "None", val |-> <<>>]

IsOk(r) == r.tag = "Ok"

Unwrap(r) == r.val[1]

\* Option<T>: None is the empty sequence, Some(v) a one-element sequence
None == <<>>

Some(v) == <<v>>

\* ------------------------------------------------------------------------
\* num-bigint: BigUint values that fit a machine integer
\* ------------------------------------------------------------------------

\* (a * b) % n of BigUint; the operands are reduced first so that the
\* product stays in TLC's integer range (n < 46341)
MulMod(a, b, n) == ((a % n) * (b % n)) % n

RECURSIVE ModPow(_, _, _)
\* BigUint::modpow(exp, modulus)
ModPow(base, exp, modulus) ==
    IF exp = 0 THEN 1 % modulus
    ELSE LET half == ModPow(MulMod(base, base, modulus), exp \div 2, modulus)
         IN  IF exp % 2 = 1 THEN MulMod(half, base, modulus) ELSE half

RECURSIVE FromBytesBE(_)
\* BigUint::from_bytes_be
FromBytesBE(bytes) ==
    IF bytes = <<>> THEN 0
    ELSE FromBytesBE(SubSeq(bytes, 1, Len(bytes) - 1)) * BYTE + bytes[Len(bytes)]

RECURSIVE ToBytesNonZero(_)
ToBytesNonZero(n) ==
    IF n = 0 THEN <<>> ELSE Append(ToBytesNonZero(n \div BYTE), n % BYTE)

\* BigUint::to_bytes_be: the shortest big-endian form, one 0 byte for zero
ToBytesBE(n) == IF n = 0 THEN <<0>> ELSE ToBytesNonZero(n)

\* <[u8; len]>::try_from(vec): Ok only for a vector of exactly len bytes
TryFromLen(bytes, len) == IF Len(bytes) = len THEN Ok(bytes) ELSE Err

RECURSIVE ToHexNonZero(_)
ToHexNonZero(n) ==
    IF n = 0 THEN <<>> ELSE Append(ToHexNonZero(n \div 16), n % 16)

\* BigUint::to_str_radix(16): the hexadecimal digits, "0" for zero
ToStrRadix16(n) == IF n = 0 THEN <<0>> ELSE ToHexNonZero(n)

RECURSIVE FromStrRadix16(_)
\* BigUint::from_str_radix(s, 16)
FromStrRadix16(digits) ==
    IF digits = <<>> THEN 0
    ELSE FromStrRadix16(SubSeq(digits, 1, Len(digits) - 1)) * 16 + digits[Len(digits)]

\* ------------------------------------------------------------------------
\* crates/field_element
\* ------------------------------------------------------------------------

\* the value of an arithmetic expression that panicked
FePanic == [num |-> 0, prime |-> 0]

\* FieldElement::new(num, prime) on hexadecimal strings
FieldElementNew(numStr, primeStr) ==
    LET bignum == FromStrRadix16(numStr)
        bigprime == FromStrRadix16(primeStr)
    IN  IF bignum < bigprime THEN Ok([num |-> bignum, prime |-> bigprime])
        ELSE IF bigprime = 0 THEN Panic   \* bigprime - BigUint::one() underflows
        ELSE Err

\* FieldElement::new(num, prime) of src/field_element.rs, on BigUint values:
\* it matches on num.cmp(&num), which is always Equal
FieldElementNewBigUint(num, prime) ==
    IF num < num THEN Err
    ELSE Ok([num |-> num, prime |-> prime])

\* FieldElement::new(..).unwrap() of the constants "0", "2", "3", "7"
FeConst(n) ==
    LET r == FieldElementNew(ToStrRadix16(n), ToStrRadix16(PRIME))
    IN  IF IsOk(r) THEN Unwrap(r) ELSE FePanic

\* FieldElement::wrap_exponent; -1 stands for the panic of an underflowing
\* BigUint subtraction
WrapExponent(fe, exponent) ==
    IF exponent < 0
    THEN IF fe.prime - 1 < -exponent THEN -1 ELSE fe.prime - 1 - (-exponent)
    ELSE exponent

RECURSIVE PowLoop(_, _, _, _)
\* the square-and-multiply loop of FieldElement::pow
PowLoop(base, result, exp, prime) ==
    IF exp > 0
    THEN PowLoop(MulMod(base, base, prime),
                 IF exp % 2 = 1 THEN MulMod(result, base, prime) ELSE result,
                 exp \div 2, prime)
    ELSE result

\* pow with the accumulator starting at the base instead of one
FePowFromBase(fe, exponent) ==
    IF fe = FePanic THEN FePanic
    ELSE LET exp == WrapExponent(fe, exponent)
         IN  IF exp < 0 THEN FePanic
             ELSE [num |-> PowLoop(fe.num, fe.num, exp, fe.prime), prime |-> fe.prime]

\* FieldElement::pow
FePow(fe, exponent) ==
    IF fe = FePanic THEN FePanic
    ELSE LET exp == WrapExponent(fe, exponent)
         IN  IF exp < 0 THEN FePanic
             ELSE [num |-> PowLoop(fe.num, 1, exp, fe.prime), prime |-> fe.prime]

\* FieldElement::sqrt
FeSqrt(fe) ==
    IF fe = FePanic THEN FePanic
    ELSE [num |-> ModPow(fe.num, (fe.prime + 1) \div 4, fe.prime), prime |-> fe.prime]

\* Add for FieldElement (owned and by reference)
FeAdd(a, b) ==
    IF a = FePanic \/ b = FePanic THEN FePanic
    ELSE IF a.prime # b.prime THEN FePanic
    ELSE [num |-> (a.num + b.num) % a.prime, prime |-> a.prime]

\* sub without the wrap around: the smaller num is taken from the larger
FeSubNoWrap(a, b) ==
    IF a = FePanic \/ b = FePanic THEN FePanic
    ELSE IF a.prime # b.prime THEN FePanic
    ELSE [num |-> IF a.num < b.num THEN b.num - a.num ELSE a.num - b.num,
          prime |-> a.prime]

\* Sub for FieldElement (owned and by reference)
FeSub(a, b) ==
    IF a = FePanic \/ b = FePanic THEN FePanic
    ELSE IF a.prime # b.prime THEN FePanic
    ELSE [num |-> IF a.num < b.num
                  THEN (a.num + a.prime - b.num) % a.prime
                  ELSE (a.num - b.num) % a.prime,
          prime |-> a.prime]

\* mul without the reduction of the product
FeMulUnreduced(a, b) ==
    IF a = FePanic \/ b = FePanic THEN FePanic
    ELSE IF a.prime # b.prime THEN FePanic
    ELSE [num |-> a.num * b.num, prime |-> a.prime]

\* Mul for FieldElement (owned and by reference)
FeMul(a, b) ==
    IF a = FePanic \/ b = FePanic THEN FePanic
    ELSE IF a.prime # b.prime THEN FePanic
    ELSE [num |-> MulMod(a.num, b.num, a.prime), prime |-> a.prime]

\* div without the test of the divisor
FeDivUnguarded(a, b) ==
    IF a = FePanic \/ b = FePanic THEN FePanic
    ELSE IF a.prime # b.prime THEN FePanic
    ELSE LET inv == ModPow(b.num, a.prime - 2, a.prime)
         IN  [num |-> MulMod(a.num, inv, a.prime), prime |-> a.prime]

\* Div for FieldElement (owned and by reference)
FeDiv(a, b) ==
    IF a = FePanic \/ b = FePanic THEN FePanic
    ELSE IF a.prime # b.prime THEN FePanic
    ELSE IF b.num = 0 THEN FePanic
    ELSE LET inv == ModPow(b.num, a.prime - 2, a.prime)
         IN  [num |-> MulMod(a.num, inv, a.prime), prime |-> a.prime]

\* the message of the panic that ends div, owned or by reference, "" when
\* div returns
FeDivMessage(a, b, byRef) ==
    IF a.prime # b.prime
    THEN (IF byRef THEN "Cannot divide elements from different fields"
                   ELSE "Cannot divide numbers from different fields")
    ELSE IF b.num = 0 THEN "Cannot divide by zero in a finite field"
    ELSE ""

\* ------------------------------------------------------------------------
\* crates/secp256k1
\* ------------------------------------------------------------------------

\* as_biguint giving the prime for the order too
AsBigUintPrime(which) == FromStrRadix16(ToStrRadix16(PRIME))

\* Secp256k1::Prime.as_biguint() / Secp256k1::Order.as_biguint()
AsBigUint(which) ==
    IF which = "Prime" THEN FromStrRadix16(ToStrRadix16(PRIME))
    ELSE FromStrRadix16(ToStrRadix16(ORDER))

\* Secp256k1Point { x: None, y: None }
Infinity == [x |-> None, y |-> None]

\* the value of a point expression that panicked
PointPanic == [x |-> Some(FePanic), y |-> Some(FePanic)]

\* Secp256k1Point::new
PointNew(x, y) ==
    IF x = None /\ y = None THEN Ok(Infinity)
    ELSE IF x = None \/ y = None THEN Err
    ELSE LET lhs == FePow(y[1], 2)
             rhs == FeAdd(FePow(x[1], 3), FeConst(7))
         IN  IF lhs = FePanic \/ rhs = FePanic THEN Panic
             ELSE IF lhs = rhs THEN Ok([x |-> x, y |-> y])
             ELSE Err

\* Secp256k1::Generator.as_point()
Generator ==
    LET x == FieldElementNew(ToStrRadix16(GX), ToStrRadix16(PRIME))
        y == FieldElementNew(ToStrRadix16(GY), ToStrRadix16(PRIME))
        g == IF IsOk(x) /\ IsOk(y) THEN PointNew(Some(Unwrap(x)), Some(Unwrap(y))) ELSE Panic
    IN  IF IsOk(g) THEN Unwrap(g) ELSE PointPanic

\* Secp256k1Point::to_uncompressed_sec
ToUncompressedSec(pt) ==
    IF pt = PointPanic \/ pt.x = None \/ pt.y = None THEN Panic
    ELSE TryFromLen(<<4>> \o ToBytesBE(pt.x[1].num) \o ToBytesBE(pt.y[1].num),
                    1 + 2 * ScalarLen)

\* Secp256k1Point::to_compressed_sec
ToCompressedSec(pt) ==
    IF pt = PointPanic \/ pt.x = None \/ pt.y = None THEN Panic
    ELSE LET serialized == IF pt.y[1].num % 2 = 0 THEN <<2>> ELSE <<3>>
         IN  TryFromLen(serialized \o ToBytesBE(pt.x[1].num), 1 + ScalarLen)

\* Secp256k1Point::deserialize
Deserialize(sec) ==
    IF Len(sec) < 1 THEN Panic
    ELSE IF Len(sec) < 1 + ScalarLen THEN Panic
    ELSE
      LET sec_type == sec[1]
          fe_x == [num |-> FromBytesBE(SubSeq(sec, 2, 1 + ScalarLen)),
                   prime |-> AsBigUint("Prime")]
      IN  IF sec_type = 4
          THEN IF Len(sec) < 1 + 2 * ScalarLen THEN Panic
               ELSE LET fe_y == [num |-> FromBytesBE(SubSeq(sec, 2 + ScalarLen, 1 + 2 * ScalarLen)),
                                 prime |-> AsBigUint("Prime")]
                    IN  Ok([x |-> Some(fe_x), y |-> Some(fe_y)])
          ELSE LET is_even == (sec_type = 2)
                   fe_7 == [num |-> 7, prime |-> AsBigUint("Prime")]
                   alpha_fe == FeAdd(FePow(fe_x, 3), fe_7)
                   beta_fe == FeSqrt(alpha_fe)
                   prime == AsBigUint("Prime")
               IN  IF is_even = (beta_fe.num % 2 = 0)
                   THEN Ok([x |-> Some(fe_x), y |-> Some(beta_fe)])
                   ELSE Ok([x |-> Some(fe_x),
                            y |-> Some([num |-> prime - beta_fe.num, prime |-> prime])])

\* the doubling branch of Add for Secp256k1Point
PointDouble(x1, y1) ==
    LET two == FeConst(2)
        three == FeConst(3)
        numerator == FeMul(three, FePow(x1, 2))
        denominator == FeMul(two, y1)
        s == FeDiv(numerator, denominator)
        s2 == FePow(s, 2)
        x3 == FeSub(s2, FeMul(two, x1))
        y3 == FeSub(FeMul(s, FeSub(x1, x3)), y1)
    IN  IF x3 = FePanic \/ y3 = FePanic THEN PointPanic
        ELSE [x |-> Some(x3), y |-> Some(y3)]

\* the general branch with y3 = s * (x1 - x3), y1 not subtracted
PointChordUnsubtracted(x1, y1, x2, y2) ==
    LET s == FeDiv(FeSub(y2, y1), FeSub(x2, x1))
        x3 == FeSub(FeSub(FePow(s, 2), x1), x2)
        y3 == FeMul(s, FeSub(x1, x3))
    IN  IF x3 = FePanic \/ y3 = FePanic THEN PointPanic
        ELSE [x |-> Some(x3), y |-> Some(y3)]

\* the general branch of Add for Secp256k1Point
PointChord(x1, y1, x2, y2) ==
    LET numerator == FeSub(y2, y1)
        denominator == FeSub(x2, x1)
        s == FeDiv(numerator, denominator)
        s2 == FePow(s, 2)
        x3 == FeSub(FeSub(s2, x1), x2)
        y3 == FeSub(FeMul(s, FeSub(x1, x3)), y1)
    IN  IF x3 = FePanic \/ y3 = FePanic THEN PointPanic
        ELSE [x |-> Some(x3), y |-> Some(y3)]

\* the owned add without the branch of equal x and different y
PointAddNoNegation(self, other) ==
    IF self = PointPanic \/ other = PointPanic THEN PointPanic
    ELSE IF self.x = None THEN other
    ELSE IF other.x = None THEN self
    ELSE IF self = other /\ self.y = None THEN PointPanic
    ELSE IF self = other /\ self.y[1] = FeConst(0) THEN Infinity
    ELSE IF self = other THEN PointDouble(self.x[1], self.y[1])
    ELSE IF self.y = None \/ other.y = None THEN PointPanic
    ELSE PointChord(self.x[1], self.y[1], other.x[1], other.y[1])

\* Add for Secp256k1Point (owned operands)
PointAdd(self, other) ==
    IF self = PointPanic \/ other = PointPanic THEN PointPanic
    ELSE IF self.x = None THEN other
    ELSE IF other.x = None THEN self
    ELSE IF self = other /\ self.y = None THEN PointPanic
    ELSE IF self = other /\ self.y[1] = FeConst(0) THEN Infinity
    ELSE IF self.x = other.x
         THEN IF self.y # other.y THEN Infinity
              ELSE PointDouble(self.x[1], self.y[1])
    ELSE IF self.y = None \/ other.y = None THEN PointPanic
    ELSE PointChord(self.x[1], self.y[1], other.x[1], other.y[1])

\* the by-reference add with its first branch returning self, not other
PointAddRefKeepsSelf(self, other) ==
    IF self.x = None THEN self ELSE PointAdd(self, other)

\* Add<&Secp256k1Point> for &Secp256k1Point
PointAddRef(self, other) ==
    IF self = PointPanic \/ other = PointPanic THEN PointPanic
    ELSE IF self.x = None THEN other
    ELSE IF other.x = None THEN self
    ELSE IF self = other /\ self.y = None THEN PointPanic
    ELSE IF self = other /\ self.y[1] = FeConst(0) THEN Infinity
    ELSE IF self.x = other.x
         THEN IF self.y # other.y THEN Infinity
              ELSE PointDouble(self.x[1], self.y[1])
    ELSE IF self.y = None \/ other.y = None THEN PointPanic
    ELSE PointChord(self.x[1], self.y[1], other.x[1], other.y[1])

RECURSIVE MulLoop(_, _, _)
RECURSIVE MulStep(_, _, _)
\* the double-and-add loop shared by the Mul implementations
MulLoop(coef, current, result) ==
    IF coef > 0
    THEN MulStep(coef,
                 IF coef % 2 = 1 THEN PointAddRef(result, current) ELSE result,
                 PointAddRef(current, current))
    ELSE result

\* the end of one iteration: result and current are replaced, coef >>= 1;
\* a panic of either addition ends the product
MulStep(coef, added, doubled) ==
    IF added = PointPanic \/ doubled = PointPanic THEN PointPanic
    ELSE MulLoop(coef \div 2, doubled, added)

\* the product with result starting at the point instead of at infinity
ScalarMulFromPoint(coefficient, point) == MulLoop(coefficient, point, point)

\* Mul of a Secp256k1Point by a BigUint coefficient, in either operand order
ScalarMul(coefficient, point) ==
    LET started == PointNew(None, None)
    IN  IF IsOk(started) THEN MulLoop(coefficient, point, Unwrap(started))
        ELSE PointPanic

\* ------------------------------------------------------------------------
\* crates/hasher: the external hash primitives
\* ------------------------------------------------------------------------

\* length in bytes of a digest of the stand-in for SHA-256: the 32 bytes of
\* the real digest scaled to 8, still twice the 4 bytes of a checksum
Sha256Len == 8

\* one absorption step of the stand-in compression function
Mix(h, b) == (((h * 181 + b + 1) % 65521) * 167 + 13) % 65521

RECURSIVE AbsorbUpTo(_, _, _)
\* the state after absorbing the first n bytes, one by one
AbsorbUpTo(h, bytes, n) ==
    IF n = 0 THEN h ELSE Mix(AbsorbUpTo(h, bytes, n - 1), bytes[n])

Absorb(h, bytes) == AbsorbUpTo(h, bytes, Len(bytes))

RECURSIVE SqueezeFrom(_, _, _)
SqueezeFrom(h, i, n) ==
    IF i > n THEN <<>> ELSE <<Mix(Mix(h, i), i) % BYTE>> \o SqueezeFrom(h, i + 1, n)

\* n output bytes drawn from the state h
Squeeze(h, n) == SqueezeFrom(h, 1, n)

\* hasher::sha256.  (TLC evaluates a definition by name, each time it is
\* used; binding a value with \in evaluates it once.)
Sha256(message) ==
    CHOOSE digest \in { Squeeze(h, Sha256Len) :
                          h \in { Absorb(27145, m) : m \in {message} } } : TRUE

\* hasher::double_sha256
DoubleSha256(message) ==
    CHOOSE digest \in { Sha256(first_hash) : first_hash \in {Sha256(message)} } : TRUE

RECURSIVE Concat(_)
\* the parts of an HMAC message, fed to mac.update one after the other
Concat(parts) ==
    IF parts = <<>> THEN <<>> ELSE parts[1] \o Concat(SubSeq(parts, 2, Len(parts)))

\* hasher::hmac256: a MAC of ScalarLen bytes
Hmac256(key, data) ==
    LET h == Mix(Absorb(Mix(Absorb(27145, key), 54), Concat(data)), 92)
    IN  <<h \div BYTE, h % BYTE>>

\* ------------------------------------------------------------------------
\* crates/key: Signature
\* ------------------------------------------------------------------------

\* Signature::new
SignatureNew(r, s) ==
    IF Len(r) # ScalarLen /\ Len(r) # ScalarLen + 1 THEN Err
    ELSE Ok([r |-> r, s |-> s])

\* Signature::from_biguint: every try_from and new is unwrapped
SignatureFromBigUint(r, s) ==
    LET r_vec == IF Len(ToBytesBE(r)) = ScalarLen
                 THEN TryFromLen(ToBytesBE(r), ScalarLen)
                 ELSE TryFromLen(ToBytesBE(r), ScalarLen + 1)
        s_vec == TryFromLen(ToBytesBE(s), ScalarLen)
    IN  IF ~IsOk(r_vec) \/ ~IsOk(s_vec) THEN Panic
        ELSE LET sig == SignatureNew(Unwrap(r_vec), Unwrap(s_vec))
             IN  IF IsOk(sig) THEN Ok(Unwrap(sig)) ELSE Panic

\* the closure serialize of der without the 0x00 in front of a high first byte
DerSerializeUnpadded(element) ==
    IF element = <<>> THEN Err
    ELSE Ok(<<2, Len(element) % BYTE>> \o element)

\* the closure serialize of Signature::der; `as u8` keeps the low eight bits
DerSerialize(element) ==
    IF element = <<>> THEN Err
    ELSE IF element[1] >= 128
         THEN Ok(<<2, (Len(element) + 1) % BYTE, 0>> \o element)
         ELSE Ok(<<2, Len(element) % BYTE>> \o element)

\* the largest len that der accepts
MaxDerLen == 255

\* der without the test of len
DerUnbounded(signature) ==
    IF ~IsOk(DerSerialize(signature.r)) \/ ~IsOk(DerSerialize(signature.s)) THEN Err
    ELSE Ok(<<48, (Len(Unwrap(DerSerialize(signature.r)))
                     + Len(Unwrap(DerSerialize(signature.s)))) % BYTE>>
            \o Unwrap(DerSerialize(signature.r)) \o Unwrap(DerSerialize(signature.s)))

\* Signature::der
Der(signature) ==
    LET r == DerSerialize(signature.r)
        s == DerSerialize(signature.s)
    IN  IF ~IsOk(r) THEN Err
        ELSE IF ~IsOk(s) THEN Err
        ELSE IF Len(Unwrap(r)) + Len(Unwrap(s)) > MaxDerLen THEN Err
        ELSE Ok(<<48, (Len(Unwrap(r)) + Len(Unwrap(s))) % BYTE>>
                \o Unwrap(r) \o Unwrap(s))

\* ------------------------------------------------------------------------
\* crates/key: Key
\* ------------------------------------------------------------------------

\* Key::to_public
\* Ok(value) of a function whose point arithmetic did not panic
OkUnlessPanic(pt) == IF pt = PointPanic THEN Panic ELSE Ok(pt)

\* Key::to_public
ToPublic(private) ==
    LET p == ToStrRadix16(AsBigUint("Prime"))
        private_num == ToStrRadix16(FromBytesBE(private))
        private_fe == FieldElementNew(private_num, p)
    IN  IF ~IsOk(private_fe) THEN Panic
        ELSE OkUnlessPanic(ScalarMul(Unwrap(private_fe).num, Generator))

\* Ok(Self { private, public }) after to_public(..).unwrap()
KeyOf(private, public) ==
    IF IsOk(public) THEN Ok([private |-> private, public |-> Unwrap(public)])
    ELSE Panic

\* Key::from_bytes_be
KeyFromBytesBE(private) == KeyOf(private, ToPublic(private))

RECURSIVE HexDecode(_)
\* hex::decode on a string of hexadecimal digits: two digits make a byte
HexDecode(digits) ==
    IF digits = <<>> THEN <<>>
    ELSE <<digits[1] * 16 + digits[2]>> \o HexDecode(SubSeq(digits, 3, Len(digits)))

\* Key::from_hexstr
KeyFromHexStr(digits) ==
    IF Len(digits) % 2 # 0 THEN Err
    ELSE IF Len(HexDecode(digits)) = ScalarLen THEN KeyFromBytesBE(HexDecode(digits))
    ELSE Err

\* the four HMAC steps of Key::deterministic_k before its loop
DetKSeed(private, z) ==
    LET k0 == [i \in 1..ScalarLen |-> 0]
        v0 == [i \in 1..ScalarLen |-> 1]
        k1 == Hmac256(k0, <<v0, <<0>>, private, z>>)
        v1 == Hmac256(k1, <<v0>>)
        k2 == Hmac256(k1, <<v1, <<1>>, private, z>>)
        v2 == Hmac256(k2, <<v1>>)
    IN  [k_bytes |-> k2, v_bytes |-> v2]

\* the candidate of one loop iteration: v_bytes = hmac256(k_bytes, v_bytes)
DetKCandidate(st) == Hmac256(st.k_bytes, <<st.v_bytes>>)

\* whether the loop returns with this candidate
DetKAccepts(cand) ==
    LET k == FromBytesBE(cand) IN k >= 1 /\ k < AsBigUint("Order")

\* the value returned for an accepted candidate
DetKResult(cand) ==
    LET result == TryFromLen(ToBytesBE(FromBytesBE(cand)), ScalarLen)
    IN  IF IsOk(result) THEN Ok(Unwrap(result)) ELSE Panic

\* the re-key step of the loop after a rejected candidate
DetKRekey(st, cand) ==
    LET k == Hmac256(st.k_bytes, <<cand, <<0>>>>)
    IN  [k_bytes |-> k, v_bytes |-> Hmac256(k, <<cand>>)]

\* s before the low-s rule: k_inv * (z + r * private) mod ord
SignRawS(private, z, k_num, r_num) ==
    LET ord == AsBigUint("Order")
        z_num == FromBytesBE(z)
        e_num == FromBytesBE(private)
        k_inv == ModPow(k_num, ord - 2, ord)
    IN  MulMod(k_inv, z_num + MulMod(r_num, e_num, ord), ord)

\* a sign that keeps whatever s the arithmetic gave
LowSSkipped(s_num, ord) == s_num

\* the low-s rule of Key::sign
LowS(s_num, ord) == IF s_num > ord \div 2 THEN ord - s_num ELSE s_num

\* Key::sign from r_num on: s, the low-s rule, and the signature
SignWithR(key, z, k_num, r_num) ==
    SignatureFromBigUint(r_num,
        LowS(SignRawS(key.private, z, k_num, r_num), AsBigUint("Order")))

\* Key::sign from r_point on: r_point.x.unwrap().num % ord
SignAtPoint(key, z, k_num, r_point) ==
    IF r_point = PointPanic \/ r_point.x = None THEN Panic
    ELSE SignWithR(key, z, k_num, r_point.x[1].num % AsBigUint("Order"))

\* Key::sign after deterministic_k has returned k: r_point = k_num * g
SignWithK(key, z, k) ==
    SignAtPoint(key, z, FromBytesBE(k), ScalarMul(FromBytesBE(k), Generator))

\* Key::sign from the return of deterministic_k on; its error is handed on
\* by the ? operator, its panic ends sign
SignAfterK(key, z, k) ==
    IF IsOk(k) THEN SignWithK(key, z, Unwrap(k)) ELSE k

\* u*G + v*PublicKey of Key::verify
VerifyTotal(key, z, signature) ==
    LET ord == AsBigUint("Order")
        z_num == FromBytesBE(z)
        s_num == FromBytesBE(signature.s)
        r_num == FromBytesBE(signature.r)
        s_inv == ModPow(s_num, ord - 2, ord)
        u == MulMod(z_num, s_inv, ord)
        v == MulMod(r_num, s_inv, ord)
    IN  PointAdd(ScalarMul(u, Generator), ScalarMul(v, key.public))

\* the last line of Key::verify: total.x.unwrap().num == r_num
VerifyCompare(total, r_num) ==
    IF total = PointPanic \/ total.x = None THEN Panic
    ELSE Ok(total.x[1].num = r_num)

\* Key::verify: Ok(TRUE), Ok(FALSE), or a panic of total.x.unwrap()
Verify(key, z, signature) ==
    VerifyCompare(VerifyTotal(key, z, signature), FromBytesBE(signature.r))

\* ------------------------------------------------------------------------
\* crates/base58.  The numbers here exceed a machine integer, so a BigUint
\* is held as its big-endian bytes without leading zero bytes (<<>> is 0).
\* ------------------------------------------------------------------------

\* the 58 symbols of ALPHABET, in order
ALPHABET ==
    << "1", "2", "3", "4", "5", "6", "7", "8", "9",
       "A", "B", "C", "D", "E", "F", "G", "H", "J", "K", "L", "M", "N", "P", "Q",
       "R", "S", "T", "U", "V", "W", "X", "Y", "Z",
       "a", "b", "c", "d", "e", "f", "g", "h", "i", "j", "k", "m", "n", "o", "p",
       "q", "r", "s", "t", "u", "v", "w", "x", "y", "z" >>

\* BigUint::from(58u32)
Base == 58

\* number of checksum bytes of a base58check string
ChecksumLen == 4

RECURSIVE BigFromBytesBE(_)
\* BigUint::from_bytes_be for a number of any size
BigFromBytesBE(bytes) ==
    IF bytes = <<>> THEN <<>>
    ELSE IF bytes[1] = 0 THEN BigFromBytesBE(SubSeq(bytes, 2, Len(bytes)))
    ELSE bytes

\* BigUint::to_bytes_be for a number of any size
BigToBytesBE(num) == IF num = <<>> THEN <<0>> ELSE num

RECURSIVE BigMulAddDigits(_, _, _)
BigMulAddDigits(num, m, carry) ==
    IF num = <<>> THEN (IF carry = 0 THEN <<>> ELSE ToBytesNonZero(carry))
    ELSE LET t == num[Len(num)] * m + carry
         IN  Append(BigMulAddDigits(SubSeq(num, 1, Len(num) - 1), m, t \div BYTE), t % BYTE)

\* num * m + c
BigMulAdd(num, m, c) == BigFromBytesBE(BigMulAddDigits(num, m, c))

RECURSIVE BigDivDigits(_, _, _)
\* long division by d: the digits of the quotient followed by the remainder
BigDivDigits(num, d, rem) ==
    IF num = <<>> THEN <<rem>>
    ELSE LET t == rem * BYTE + num[1]
         IN  <<t \div d>> \o BigDivDigits(SubSeq(num, 2, Len(num)), d, t % d)

\* num / d
BigDiv(num, d) ==
    LET qr == BigDivDigits(num, d, 0) IN BigFromBytesBE(SubSeq(qr, 1, Len(qr) - 1))

\* num % d
BigRem(num, d) ==
    LET qr == BigDivDigits(num, d, 0) IN qr[Len(qr)]

\* ALPHABET.find(char): the index from 0, or -1 when the char is absent
AlphabetFind(char) ==
    IF \E i \in 1..Len(ALPHABET) : ALPHABET[i] = char
    THEN (CHOOSE i \in 1..Len(ALPHABET) : ALPHABET[i] = char) - 1
    ELSE -1

RECURSIVE DecodeNum(_, _)
\* step 1 of decode_base58 over the first n characters: Err at the first
\* character outside ALPHABET
DecodeNum(text, n) ==
    IF n = 0 THEN Ok(<<>>)
    ELSE LET num == DecodeNum(text, n - 1)
             char_index == AlphabetFind(text[n])
         IN  IF ~IsOk(num) \/ char_index < 0 THEN Err
             ELSE Ok(BigMulAdd(Unwrap(num), Base, char_index))

RECURSIVE TakeWhileCount(_, _)
\* seq.take_while(|c| c == v).count()
TakeWhileCount(seq, v) ==
    IF seq = <<>> \/ seq[1] # v THEN 0
    ELSE 1 + TakeWhileCount(SubSeq(seq, 2, Len(seq)), v)

\* decode_base58 without the comparison of step 5: the checksum is split off
\* and the data returned whatever the checksum is
DecodeUnchecked(full_byte_array) ==
    IF Len(full_byte_array) < ChecksumLen THEN Err
    ELSE Ok(SubSeq(full_byte_array, 1, Len(full_byte_array) - ChecksumLen))

\* steps 4 and 5 of decode_base58: split off and verify the checksum
DecodeChecked(full_byte_array) ==
    IF Len(full_byte_array) < ChecksumLen THEN Err
    ELSE
      LET data == SubSeq(full_byte_array, 1, Len(full_byte_array) - ChecksumLen)
          checksum == SubSeq(full_byte_array,
                             Len(full_byte_array) - ChecksumLen + 1,
                             Len(full_byte_array))
          calc_checksum == DoubleSha256(data)
      IN  IF checksum # SubSeq(calc_checksum, 1, ChecksumLen) THEN Err
          ELSE Ok(data)

\* base58::decode_base58
DecodeBase58(base58) ==
    LET num == DecodeNum(base58, Len(base58))
    IN  IF ~IsOk(num) THEN Err
        ELSE
          LET byte_array == BigToBytesBE(Unwrap(num))
              leading_zeros == TakeWhileCount(base58, "1")
          IN  CHOOSE result \in
                { DecodeChecked(full_byte_array) :
                    full_byte_array \in { [i \in 1..leading_zeros |-> 0] \o byte_array } } : TRUE

RECURSIVE EncodeDigits(_)
\* the while loop of encode_base58: the symbol of num % 58 goes in front of
\* the symbols produced so far, and num /= 58, until num is zero
EncodeDigits(num) ==
    IF num # <<>>
    THEN Append(EncodeDigits(BigDiv(num, Base)), ALPHABET[BigRem(num, Base) + 1])
    ELSE <<>>

\* encode_base58 without the prefix of '1's
EncodeBase58Trimmed(bytes) == Ok(EncodeDigits(BigFromBytesBE(bytes)))

\* base58::encode_base58
EncodeBase58(bytes) ==
    LET count == TakeWhileCount(bytes, 0)
        data == EncodeDigits(BigFromBytesBE(bytes))
        prefix == [i \in 1..count |-> "1"]
    IN  Ok(prefix \o data)

\* the checksum that encode_base58check appends
EncodeChecksum(bytes) == SubSeq(Sha256(bytes), 1, ChecksumLen)

\* base58::encode_base58check
EncodeBase58Check(bytes) ==
    CHOOSE result \in
      { EncodeBase58(data) : data \in { bytes \o EncodeChecksum(bytes) } } : TRUE

\* ------------------------------------------------------------------------
\* Bounds of the inputs
\* ------------------------------------------------------------------------

\* private scalars 0..MaxSmallPrivate are tried, next to those around ORDER
\* and PRIME
MaxSmallPrivate == 2

\* private scalars within this distance of ORDER and of PRIME are tried
PrivateEdge == 1

\* digests z are the ScalarLen-byte forms of 0..MaxDigest
MaxDigest == 40

\* r and s of a signature handed to verify are the forms of 0..MaxSigPart
MaxSigPart == 2

RECURSIVE FixedBytes(_, _)
\* the len-byte big-endian array holding n
FixedBytes(n, len) ==
    IF len = 0 THEN <<>> ELSE Append(FixedBytes(n \div BYTE, len - 1), n % BYTE)

Abs(n) == IF n < 0 THEN -n ELSE n

\* the private byte arrays handed to the constructors
PrivateInputs ==
    { FixedBytes(d, ScalarLen) :
        d \in { e \in 0..(BYTE * BYTE - 1) :
                   \/ e <= MaxSmallPrivate
                   \/ Abs(e - ORDER) <= PrivateEdge
                   \/ Abs(e - PRIME) <= PrivateEdge } }

\* the hexadecimal strings handed to from_hexstr, as digit values: those of
\* the private byte arrays, and each of them without its last digit or byte
HexInputs ==
    UNION { LET digits == <<b[1] \div 16, b[1] % 16, b[2] \div 16, b[2] % 16>>
            IN  { digits, SubSeq(digits, 1, 3), SubSeq(digits, 1, 2) } :
            b \in PrivateInputs }

\* the digests handed to deterministic_k, sign and verify
DigestInputs == { FixedBytes(n, ScalarLen) : n \in 0..MaxDigest }

\* the signatures handed to verify besides those that sign returned
SignatureInputs ==
    { [r |-> FixedBytes(a, ScalarLen), s |-> FixedBytes(b, ScalarLen)] :
        a \in 0..MaxSigPart, b \in 0..MaxSigPart }

\* longest r or s of the signatures handed to der
MaxElementLen == 258

\* the lengths of those r and s: none, short, the lengths of a signature,
\* lengths of which two reach the limit of der, and lengths of which one does
ElementLens ==
    {0, 1, 2, ScalarLen, 32, 33} \cup (120..130) \cup ((MaxElementLen - 12)..MaxElementLen)

\* the r and s handed to der, with a first byte below and from 0x80
DerElements ==
    { [i \in 1..c[1] |-> IF i = 1 THEN c[2] ELSE 7] : c \in ElementLens \X {1, 128} }

\* largest small r and s handed to Signature::from_biguint
MaxSigValue == 3

\* the r and s handed to Signature::from_biguint, all below the group order
SigValues == (0..MaxSigValue) \cup { BYTE - 1, BYTE, ORDER - 1 }

\* points are built from the x coordinates 0..MaxCoordX
MaxCoordX == 300

\* points are also reached as k*G for k in 1..MaxScalar
MaxScalar == 6

\* malformed SEC strings start with a byte in 0..MaxSecPrefix
MaxSecPrefix == 5

\* payloads of base58check have up to MaxPayloadLen bytes
MaxPayloadLen == 3

\* the byte values a payload is made of
PayloadBytes == {0, 1, 124, 255}

\* the field element of PRIME holding n, for n < PRIME
Fe(n) == Unwrap(FieldElementNew(ToStrRadix16(n), ToStrRadix16(PRIME)))

\* the coordinate pairs handed to Secp256k1Point::new: each x with the two
\* candidate roots of x^3 + 7
CoordInputs ==
    UNION { LET root == FeSqrt(FeAdd(FePow(Fe(x), 3), FeConst(7))).num
            IN  { <<x, root>>, <<x, (PRIME - root) % PRIME>> } : x \in 0..MaxCoordX }

\* largest x of the coordinates handed to Secp256k1Point::new as options
MaxNewCoord == 12

\* FieldElement::new(n, "d").unwrap(): an element of the field of 13 elements
OtherFe(n) == Unwrap(FieldElementNew(ToStrRadix16(n % 13), ToStrRadix16(13)))

\* the arguments handed to Secp256k1Point::new: no coordinates, one
\* coordinate, two coordinates in either order, and two coordinates of which
\* one is an element of another field
NewPointInputs ==
    { <<None, None>> } \cup
    UNION { { <<Some(Fe(c[1])), None>>,
              <<None, Some(Fe(c[2]))>>,
              <<Some(Fe(c[1])), Some(Fe(c[2]))>>,
              <<Some(Fe(c[2])), Some(Fe(c[1]))>>,
              <<Some(OtherFe(c[1])), Some(Fe(c[2]))>>,
              <<Some(Fe(c[1])), Some(OtherFe(c[2]))>> } :
            c \in { d \in CoordInputs : d[1] <= MaxNewCoord } }

\* most additions and multiplications applied one after the other
MaxWalkSteps == 2

\* largest small coefficient of a multiplication
MaxWalkScalar == 6

\* the points Secp256k1Point::new accepts among NewPointInputs, and
\* Secp256k1::Generator.as_point()
StartPoints ==
    { Unwrap(PointNew(c[1], c[2])) : c \in { d \in NewPointInputs : IsOk(PointNew(d[1], d[2])) } }
    \cup { Generator }

\* Secp256k1Point::new(x, FieldElement::new(p - y, PRIME)): the point (x, p - y)
Negation(pt) == Unwrap(PointNew(pt.x, Some(Fe(PRIME - pt.y[1].num))))

\* the points added to a point pt: infinity, the generator, pt itself and,
\* when pt is finite with y other than zero, (x, p - y)
WalkOperands(pt) ==
    { Infinity, Generator, pt } \cup
    (IF pt.x # None /\ pt.y # None /\ pt.y[1].num # 0 THEN { Negation(pt) } ELSE {})

\* the coefficients of the multiplications: small ones, and the group order
\* and the number before it
WalkScalars == (0..MaxWalkScalar) \cup { AsBigUint("Order") - 1, AsBigUint("Order") }

\* coordinates written by another program go up to MaxRawCoord, and reach
\* the prime
MaxRawCoord == 3

\* the coordinate pairs of SEC strings that no point was serialized to
RawBodies ==
    { FixedBytes(x, ScalarLen) \o FixedBytes(y, ScalarLen) :
        x \in (0..MaxRawCoord) \cup {PRIME, PRIME + 1},
        y \in (0..1) \cup {PRIME} }

\* the byte strings handed to deserialize besides those the serializers
\* returned: the encodings of k*G cut at every length, under every prefix
RawSecInputs ==
    { <<>> } \cup
    { <<prefix>> \o SubSeq(body, 1, n) :
        prefix \in 0..MaxSecPrefix,
        n \in 0..(2 * ScalarLen),
        body \in { FixedBytes(ScalarMul(k, Generator).x[1].num, ScalarLen)
                     \o FixedBytes(ScalarMul(k, Generator).y[1].num, ScalarLen) :
                   k \in 1..MaxScalar } \cup RawBodies }

RECURSIVE SeqsUpTo(_, _)
\* the sequences over set of length at most n
SeqsUpTo(set, n) ==
    IF n = 0 THEN { <<>> }
    ELSE SeqsUpTo(set, n - 1) \cup
         { Append(q, b) : q \in { t \in SeqsUpTo(set, n - 1) : Len(t) = n - 1 }, b \in set }

\* the payloads handed to encode_base58check
PayloadInputs == SeqsUpTo(PayloadBytes, MaxPayloadLen)

\* the alphanumeric characters that ALPHABET leaves out
ForeignChars == {"0", "O", "I", "l"}

\* what is added to a checksum byte to change it
FlipDeltas == {1, 128}

\* the bytes of a well-formed base58check string: the payload and the first
\* four bytes of its double SHA-256
WithChecksum(payload) == payload \o SubSeq(DoubleSha256(payload), 1, ChecksumLen)

\* the text of a byte sequence
TextOf(bytes) == Unwrap(EncodeBase58(bytes))

\* the strings handed to decode_base58: well-formed ones, ones with one
\* checksum byte changed, ones with one character replaced by a character
\* outside the alphabet, and ones of fewer than four bytes
DecodeInputs ==
    { [kind |-> "valid", payload |-> p, text |-> TextOf(WithChecksum(p))] :
        p \in PayloadInputs }
    \cup
    { [kind |-> "flipped", payload |-> c[1],
       text |-> TextOf([WithChecksum(c[1]) EXCEPT ![Len(c[1]) + c[2]] = (@ + c[3]) % BYTE])] :
        c \in PayloadInputs \X (1..ChecksumLen) \X FlipDeltas }
    \cup
    { [kind |-> "foreign", payload |-> c[1],
       text |-> [TextOf(WithChecksum(c[1])) EXCEPT ![1] = c[2]]] :
        c \in PayloadInputs \X ForeignChars }
    \cup
    { [kind |-> "foreign", payload |-> c[1],
       text |-> Append(TextOf(WithChecksum(c[1])), c[2])] :
        c \in PayloadInputs \X ForeignChars }
    \cup
    { [kind |-> "short", payload |-> b, text |-> TextOf(b)] :
        b \in { q \in SeqsUpTo(PayloadBytes, ChecksumLen - 1) :
                  Len(q) < ChecksumLen - 1 \/ BigFromBytesBE(q) # <<>> } }

\* largest modulus of the fields whose elements are operated on
MaxFieldModulus == 11

\* largest absolute value of the exponents handed to pow
MaxExponent == 12

\* largest num and prime handed to FieldElement::new
MaxNewValue == 17

FieldPrimes == { p \in 2..MaxFieldModulus : \A d \in 2..(p - 1) : p % d # 0 }

\* every element of every field of FieldPrimes
FieldElements ==
    { Unwrap(FieldElementNew(ToStrRadix16(c[1]), ToStrRadix16(c[2]))) :
        c \in { d \in (0..MaxFieldModulus) \X FieldPrimes : d[1] < d[2] } }

\* longest byte sequence handed to encode_base58
MaxEncodeLen == 3

\* the byte values of those sequences
EncodeBytes == {0, 1, 58, 127}

EncodeInputs == SeqsUpTo(EncodeBytes, MaxEncodeLen)

\* ------------------------------------------------------------------------
\* src/primitives/point.rs: Point, a point of y^2 = x^3 + a*x + b
\* ------------------------------------------------------------------------

\* what a panicking addition of Point leaves in place of a point
GenericPointPanic == [x |-> None, y |-> None, a |-> FePanic, b |-> FePanic]

\* Point::new(x, y, a, b)
GenericPointNew(x, y, a, b) ==
    IF x = None /\ y = None THEN Ok([x |-> None, y |-> None, a |-> a, b |-> b])
    ELSE IF x = None \/ y = None THEN Panic
    ELSE IF FePow(y[1], 2) = FePanic
            \/ FeAdd(FeAdd(FePow(x[1], 3), FeMul(a, x[1])), b) = FePanic
         THEN Panic
    ELSE IF FePow(y[1], 2) # FeAdd(FeAdd(FePow(x[1], 3), FeMul(a, x[1])), b) THEN Err
    ELSE Ok([x |-> x, y |-> y, a |-> a, b |-> b])

\* the last branch but one of Add for Point, taken when the x differ
GenericPointChord(self, other, slope, x_minus) ==
    IF slope = FePanic \/ x_minus = FePanic
       \/ FeSub(FePow(slope, 2), x_minus) = FePanic
       \/ FeSub(FeMul(slope, x_minus), self.y[1]) = FePanic
    THEN GenericPointPanic
    ELSE [x |-> Some(FeSub(FePow(slope, 2), x_minus)),
          y |-> Some(FeSub(FeMul(slope, x_minus), self.y[1])),
          a |-> self.a, b |-> self.b]

\* Add for Point
GenericPointAdd(self, other) ==
    IF self.a # other.a \/ self.b # other.b THEN GenericPointPanic
    ELSE IF self.x = None THEN other
    ELSE IF other.x = None THEN self
    ELSE IF self.x = other.x /\ self.y # other.y
         THEN [x |-> None, y |-> other.y, a |-> self.a, b |-> self.b]
    ELSE IF self.x # other.x
         THEN IF self.y = None \/ other.y = None THEN GenericPointPanic
              ELSE GenericPointChord(self, other,
                       FeDiv(FeSub(other.y[1], self.y[1]), FeSub(other.x[1], self.x[1])),
                       FeSub(self.x[1], other.x[1]))
    ELSE GenericPointPanic

\* the fields of Point have a prime up to MaxPointModulus
MaxPointModulus == 7

\* the coefficients a and b of the curves go up to MaxCurveCoef
MaxCurveCoef == 1

\* the primes above 3, for which every curve has the form y^2 = x^3 + a*x + b
PointFields == { p \in 5..MaxPointModulus : \A d \in 2..(p - 1) : p % d # 0 }

\* the elements of the field of prime p
PointElements(p) ==
    { Unwrap(FieldElementNew(ToStrRadix16(n), ToStrRadix16(p))) : n \in 0..(p - 1) }

\* the coefficients (a, b) of the curves over the field of prime p: those
\* without a singular point, 4*a^3 + 27*b^2 # 0
Curves(p) ==
    { c \in PointElements(p) \X PointElements(p) :
        /\ c[1].num <= MaxCurveCoef
        /\ c[2].num <= MaxCurveCoef
        /\ (4 * c[1].num * c[1].num * c[1].num + 27 * c[2].num * c[2].num) % p # 0 }

\* an optional coordinate in the field of prime p
PointCoords(p) == { None } \cup { Some(c) : c \in PointElements(p) }

\* the points that Point::new accepts on the curves over the field of prime p
PointsOver(p) ==
    { Unwrap(GenericPointNew(c[1], c[2], c[3][1], c[3][2])) :
        c \in { d \in PointCoords(p) \X PointCoords(p) \X Curves(p) :
                  IsOk(GenericPointNew(d[1], d[2], d[3][1], d[3][2])) } }

\* ------------------------------------------------------------------------
\* State
\* ------------------------------------------------------------------------

VARIABLES
    key,      \* outcome of the Key constructor: NoCall before it ran
    pc,       \* "idle", or "loop" inside the loop of deterministic_k
    cur,      \* the call in progress: its operation and its digest z
    hmacSt,   \* k_bytes and v_bytes of the deterministic_k in progress
    ret,      \* the last completed deterministic_k or sign call
    prev,     \* the deterministic_k call completed before the one in cur
    ver,      \* the last completed verify call
    point,    \* outcome of Secp256k1Point::new or of a scalar product
    sec,      \* the last serialization of point: its form and its outcome
    des,      \* the last deserialize call: its input and its outcome
    b58in,    \* the payload handed to encode_base58check
    b58enc,   \* outcome of encode_base58check
    b58dec,   \* outcome of decode_base58
    made,     \* the arguments of the Secp256k1Point::new call that set point
    sum,      \* the sums of point and the point at infinity
    b58call,  \* a decode_base58 or encode_base58 call on text or bytes
    fe,       \* a FieldElement call: its operation, operands and result
    feBack,   \* the result of undoing fe: (a + b) - b or (a * b) / b
    walk,     \* a point, and the addition or multiplication that produced it
    sig,      \* a Signature::der or Signature::from_biguint call
    gpoint    \* a Point::new call, and the addition made with its point

keyVars == <<key, pc, cur, hmacSt, ret, prev, ver>>

secVars == <<point, sec, des, made, sum>>

b58Vars == <<b58in, b58enc, b58dec, b58call>>

feVars == <<fe, feBack>>

moreVars == <<walk, sig, gpoint>>

vars == <<key, pc, cur, hmacSt, ret, prev, ver, point, sec, des, made, sum,
          b58in, b58enc, b58dec, b58call, fe, feBack, walk, sig, gpoint>>

NoCur == [op |-> "none", z |-> <<>>]

NoHmac == [k_bytes |-> <<>>, v_bytes |-> <<>>]

NoRet == [op |-> "none", z |-> <<>>, k |-> NoCall, out |-> NoCall]

NoVer == [own |-> FALSE, z |-> <<>>, sig |-> [r |-> <<>>, s |-> <<>>], out |-> NoCall]

NoSec == [form |-> "none", out |-> NoCall]

NoDes == [own |-> FALSE, input |-> <<>>, out |-> NoCall]

NoMade == [x |-> None, y |-> None, called |-> FALSE]

NoSum == [called |-> FALSE, right |-> Infinity, left |-> Infinity,
          rightRef |-> Infinity, leftRef |-> Infinity]

NoWalk == [steps |-> 0, op |-> "none", p |-> Infinity, q |-> Infinity, k |-> 0,
           acc |-> Infinity]

NoSig == [op |-> "none", r |-> <<>>, s |-> <<>>, rNum |-> 0, sNum |-> 0, out |-> NoCall]

NoGPoint == [op |-> "none", x |-> None, y |-> None, a |-> FePanic, b |-> FePanic,
             made |-> NoCall, other |-> GenericPointPanic, out |-> GenericPointPanic]

NoB58Call == [op |-> "none", kind |-> "none", payload |-> <<>>, input |-> <<>>, out |-> NoCall]

NoFe == [op |-> "none", a |-> FePanic, b |-> FePanic, e |-> 0, got |-> NoCall,
         out |-> FePanic, msg |-> "", refMsg |-> ""]

Init ==
    /\ key = NoCall
    /\ pc = "idle"
    /\ cur = NoCur
    /\ hmacSt = NoHmac
    /\ ret = NoRet
    /\ prev = NoRet
    /\ ver = NoVer
    /\ point = NoCall
    /\ sec = NoSec
    /\ des = NoDes
    /\ b58in = <<>>
    /\ b58enc = NoCall
    /\ b58dec = NoCall
    /\ made = NoMade
    /\ sum = NoSum
    /\ b58call = NoB58Call
    /\ fe = NoFe
    /\ feBack = None
    /\ walk = NoWalk
    /\ sig = NoSig
    /\ gpoint = NoGPoint

\* ------------------------------------------------------------------------
\* Key: construction, deterministic_k, sign, verify
\* ------------------------------------------------------------------------

\* Key::from_bytes_be(private): the key is built once
NewKey(private) ==
    /\ key = NoCall
    /\ key' = KeyFromBytesBE(private)
    /\ UNCHANGED <<pc, cur, hmacSt, ret, prev, ver>>
    /\ UNCHANGED <<secVars, b58Vars, feVars, moreVars>>

\* Key::from_hexstr(private): the same key, built from hexadecimal digits
NewKeyFromHexStr(digits) ==
    /\ key = NoCall
    /\ key' = KeyFromHexStr(digits)
    /\ UNCHANGED <<pc, cur, hmacSt, ret, prev, ver>>
    /\ UNCHANGED <<secVars, b58Vars, feVars, moreVars>>

\* a deterministic_k whose HMAC input keeps the k of the call before it
CallDeterministicKCarried(z) ==
    /\ pc = "idle"
    /\ IsOk(key)
    /\ ver = NoVer
    /\ ret = NoRet \/ (ret.op = "deterministic_k" /\ prev = NoRet)
    /\ pc' = "loop"
    /\ cur' = [op |-> "deterministic_k", z |-> z]
    /\ hmacSt' = DetKSeed(Unwrap(key).private,
                          IF IsOk(ret.out) THEN Unwrap(ret.out) ELSE z)
    /\ prev' = ret
    /\ ret' = NoRet
    /\ UNCHANGED <<key, ver>>
    /\ UNCHANGED <<secVars, b58Vars, feVars, moreVars>>

\* key.deterministic_k(z) up to the head of its loop.  A call leaves the key
\* as it was, so a key is followed through two such calls in a row.
CallDeterministicK(z) ==
    /\ pc = "idle"
    /\ IsOk(key)
    /\ ver = NoVer
    /\ ret = NoRet \/ (ret.op = "deterministic_k" /\ prev = NoRet)
    /\ pc' = "loop"
    /\ cur' = [op |-> "deterministic_k", z |-> z]
    /\ hmacSt' = DetKSeed(Unwrap(key).private, z)
    /\ prev' = ret
    /\ ret' = NoRet
    /\ UNCHANGED <<key, ver>>
    /\ UNCHANGED <<secVars, b58Vars, feVars, moreVars>>

\* key.sign(z) up to the head of the loop of the deterministic_k it calls
CallSign(z) ==
    /\ pc = "idle"
    /\ IsOk(key)
    /\ ver = NoVer
    /\ ret = NoRet
    /\ pc' = "loop"
    /\ cur' = [op |-> "sign", z |-> z]
    /\ hmacSt' = DetKSeed(Unwrap(key).private, z)
    /\ UNCHANGED <<key, ret, prev, ver>>
    /\ UNCHANGED <<secVars, b58Vars, feVars, moreVars>>

\* one iteration of the loop that rejects its candidate and re-keys
LoopRekey ==
    /\ pc = "loop"
    /\ ~DetKAccepts(DetKCandidate(hmacSt))
    /\ hmacSt' = DetKRekey(hmacSt, DetKCandidate(hmacSt))
    /\ UNCHANGED <<key, pc, cur, ret, prev, ver>>
    /\ UNCHANGED <<secVars, b58Vars, feVars, moreVars>>

\* the iteration that accepts its candidate: deterministic_k returns, and
\* a sign call runs to its end
LoopReturn ==
    /\ pc = "loop"
    /\ DetKAccepts(DetKCandidate(hmacSt))
    /\ ret' = [op |-> cur.op, z |-> cur.z,
               k |-> DetKResult(DetKCandidate(hmacSt)),
               out |-> IF cur.op = "deterministic_k"
                       THEN DetKResult(DetKCandidate(hmacSt))
                       ELSE SignAfterK(Unwrap(key), cur.z, DetKResult(DetKCandidate(hmacSt)))]
    /\ pc' = "idle"
    /\ cur' = NoCur
    /\ hmacSt' = NoHmac
    /\ UNCHANGED <<key, prev, ver>>
    /\ UNCHANGED <<secVars, b58Vars, feVars, moreVars>>

\* key.verify(z, signature) on the signature that sign(z) just returned
VerifyOwn ==
    /\ pc = "idle"
    /\ ret.op = "sign"
    /\ IsOk(ret.out)
    /\ ver = NoVer
    /\ ver' = [own |-> TRUE, z |-> ret.z, sig |-> Unwrap(ret.out),
               out |-> Verify(Unwrap(key), ret.z, Unwrap(ret.out))]
    /\ UNCHANGED <<key, pc, cur, hmacSt, ret, prev>>
    /\ UNCHANGED <<secVars, b58Vars, feVars, moreVars>>

\* key.verify(z, signature) on a signature from elsewhere; verify reads only
\* the key and its arguments, so it is tried on the freshly built key
VerifyGiven(z, signature) ==
    /\ pc = "idle"
    /\ IsOk(key)
    /\ ret = NoRet
    /\ ver = NoVer
    /\ ver' = [own |-> FALSE, z |-> z, sig |-> signature,
               out |-> Verify(Unwrap(key), z, signature)]
    /\ UNCHANGED <<key, pc, cur, hmacSt, ret, prev>>
    /\ UNCHANGED <<secVars, b58Vars, feVars, moreVars>>

KeyNext ==
    \/ \E private \in PrivateInputs : NewKey(private)
    \/ \E digits \in HexInputs : NewKeyFromHexStr(digits)
    \/ \E z \in DigestInputs : CallDeterministicK(z)
    \/ \E z \in DigestInputs : CallSign(z)
    \/ LoopRekey
    \/ LoopReturn
    \/ VerifyOwn
    \/ \E z \in DigestInputs, signature \in SignatureInputs : VerifyGiven(z, signature)

KeySpec == Init /\ [][KeyNext]_vars

\* ------------------------------------------------------------------------
\* Secp256k1Point: construction, SEC serialization, deserialize
\* ------------------------------------------------------------------------

\* Secp256k1Point::new(Some(x), Some(y)) accepting the coordinates
NewPoint(x, y) ==
    /\ point = NoCall
    /\ des = NoDes
    /\ IsOk(PointNew(Some(Fe(x)), Some(Fe(y))))
    /\ point' = PointNew(Some(Fe(x)), Some(Fe(y)))
    /\ UNCHANGED <<sec, des, made, sum>>
    /\ UNCHANGED <<keyVars, b58Vars, feVars, moreVars>>

\* the point k * G
MulPoint(k) ==
    /\ point = NoCall
    /\ des = NoDes
    /\ point' = Ok(ScalarMul(k, Generator))
    /\ UNCHANGED <<sec, des, made, sum>>
    /\ UNCHANGED <<keyVars, b58Vars, feVars, moreVars>>

\* point.to_compressed_sec()
SerializeCompressed ==
    /\ IsOk(point)
    /\ sec = NoSec
    /\ sec' = [form |-> "compressed", out |-> ToCompressedSec(Unwrap(point))]
    /\ UNCHANGED <<point, des, made, sum>>
    /\ UNCHANGED <<keyVars, b58Vars, feVars, moreVars>>

\* point.to_uncompressed_sec()
SerializeUncompressed ==
    /\ IsOk(point)
    /\ sec = NoSec
    /\ sec' = [form |-> "uncompressed", out |-> ToUncompressedSec(Unwrap(point))]
    /\ UNCHANGED <<point, des, made, sum>>
    /\ UNCHANGED <<keyVars, b58Vars, feVars, moreVars>>

\* Secp256k1Point::deserialize on the bytes a serializer returned
DeserializeSec ==
    /\ IsOk(sec.out)
    /\ des = NoDes
    /\ des' = [own |-> TRUE, input |-> Unwrap(sec.out), out |-> Deserialize(Unwrap(sec.out))]
    /\ UNCHANGED <<point, sec, made, sum>>
    /\ UNCHANGED <<keyVars, b58Vars, feVars, moreVars>>

\* Secp256k1Point::deserialize on bytes from elsewhere
DeserializeRaw(bytes) ==
    /\ point = NoCall
    /\ des = NoDes
    /\ des' = [own |-> FALSE, input |-> bytes, out |-> Deserialize(bytes)]
    /\ UNCHANGED <<point, sec, made, sum>>
    /\ UNCHANGED <<keyVars, b58Vars, feVars, moreVars>>

\* Secp256k1Point::new(x, y) on optional coordinates
NewPointFrom(x, y) ==
    /\ point = NoCall
    /\ des = NoDes
    /\ point' = PointNew(x, y)
    /\ made' = [x |-> x, y |-> y, called |-> TRUE]
    /\ UNCHANGED <<sec, des, sum>>
    /\ UNCHANGED <<keyVars, b58Vars, feVars, moreVars>>

\* point + infinity and infinity + point, owned and by reference
AddInfinity ==
    /\ IsOk(point)
    /\ ~sum.called
    /\ sec = NoSec
    /\ des = NoDes
    /\ sum' = [called |-> TRUE,
               right |-> PointAdd(Unwrap(point), Unwrap(PointNew(None, None))),
               left |-> PointAdd(Unwrap(PointNew(None, None)), Unwrap(point)),
               rightRef |-> PointAddRef(Unwrap(point), Unwrap(PointNew(None, None))),
               leftRef |-> PointAddRef(Unwrap(PointNew(None, None)), Unwrap(point))]
    /\ UNCHANGED <<point, sec, des, made>>
    /\ UNCHANGED <<keyVars, b58Vars, feVars, moreVars>>

SecNext ==
    \/ \E c \in CoordInputs : NewPoint(c[1], c[2])
    \/ \E c \in NewPointInputs : NewPointFrom(c[1], c[2])
    \/ AddInfinity
    \/ \E k \in 1..MaxScalar : MulPoint(k)
    \/ SerializeCompressed
    \/ SerializeUncompressed
    \/ DeserializeSec
    \/ \E bytes \in RawSecInputs : DeserializeRaw(bytes)

SecSpec == Init /\ [][SecNext]_vars

\* ------------------------------------------------------------------------
\* Base58check: encode, then decode what was encoded
\* ------------------------------------------------------------------------

\* encode_base58check(payload)
EncodeCheck(payload) ==
    /\ b58enc = NoCall
    /\ b58call = NoB58Call
    /\ b58in' = payload
    /\ b58enc' = EncodeBase58Check(payload)
    /\ UNCHANGED <<b58dec, b58call>>
    /\ UNCHANGED <<keyVars, secVars, feVars, moreVars>>

\* decode_base58 on the string that encode_base58check returned
DecodeEncoded ==
    /\ IsOk(b58enc)
    /\ b58dec = NoCall
    /\ b58dec' = DecodeBase58(Unwrap(b58enc))
    /\ UNCHANGED <<b58in, b58enc, b58call>>
    /\ UNCHANGED <<keyVars, secVars, feVars, moreVars>>

\* decode_base58(text)
DecodeText(kind, payload, text) ==
    /\ b58enc = NoCall
    /\ b58call = NoB58Call
    /\ b58call' = [op |-> "decode", kind |-> kind, payload |-> payload,
                   input |-> text, out |-> DecodeBase58(text)]
    /\ UNCHANGED <<b58in, b58enc, b58dec>>
    /\ UNCHANGED <<keyVars, secVars, feVars, moreVars>>

\* encode_base58(bytes)
EncodePlain(bytes) ==
    /\ b58enc = NoCall
    /\ b58call = NoB58Call
    /\ b58call' = [op |-> "encode", kind |-> "plain", payload |-> bytes,
                   input |-> <<>>, out |-> EncodeBase58(bytes)]
    /\ UNCHANGED <<b58in, b58enc, b58dec>>
    /\ UNCHANGED <<keyVars, secVars, feVars, moreVars>>

Base58Next ==
    \/ \E payload \in PayloadInputs : EncodeCheck(payload)
    \/ DecodeEncoded
    \/ \E c \in DecodeInputs : DecodeText(c.kind, c.payload, c.text)
    \/ \E bytes \in EncodeInputs : EncodePlain(bytes)

Base58Spec == Init /\ [][Base58Next]_vars

\* ------------------------------------------------------------------------
\* Properties of Key
\* ------------------------------------------------------------------------

\* C1: for every private scalar d with 0 < d < N and every digest z, sign(z)
\* returns a signature without aborting, and verify(z, sign(z)) is true
SignThenVerifyHolds ==
    (IsOk(key) /\ 0 < FromBytesBE(Unwrap(key).private)
               /\ FromBytesBE(Unwrap(key).private) < ORDER) =>
        /\ ret.op = "sign" => IsOk(ret.out)
        /\ ver.own => ver.out = Ok(TRUE)

\* C2: verify(z, signature) returns true exactly when u*G + v*PublicKey is a
\* finite point whose x coordinate reduced mod N equals r, and false in
\* every other case, the point at infinity included
VerifyDecidesByX ==
    ver.out # NoCall =>
        LET total == VerifyTotal(Unwrap(key), ver.z, ver.sig)
        IN  ver.out = Ok(/\ total # PointPanic
                         /\ total.x # None
                         /\ total.x[1].num % ORDER = FromBytesBE(ver.sig.r))

\* C3: every signature that sign returns has s <= floor(N/2): s is the s of
\* the signing equation or, when that exceeds N/2, N minus it, and r is the
\* x coordinate of k*G reduced mod N either way
SignIsLowS ==
    (ret.op = "sign" /\ IsOk(ret.out)) =>
        LET k_num == FromBytesBE(Unwrap(ret.k))
            r_num == ScalarMul(k_num, Generator).x[1].num % ORDER
            raw == SignRawS(Unwrap(key).private, ret.z, k_num, r_num)
            s_num == FromBytesBE(Unwrap(ret.out).s)
        IN  /\ s_num <= ORDER \div 2
            /\ s_num = (IF raw > ORDER \div 2 THEN ORDER - raw ELSE raw)
            /\ FromBytesBE(Unwrap(ret.out).r) = r_num

\* a sign call returned a signature whose s the signing equation put above N/2
SignReplacedHighS ==
    /\ ret.op = "sign"
    /\ IsOk(ret.out)
    /\ LET k_num == FromBytesBE(Unwrap(ret.k))
           r_num == ScalarMul(k_num, Generator).x[1].num % ORDER
       IN  SignRawS(Unwrap(key).private, ret.z, k_num, r_num) > ORDER \div 2

KeyScalarInRange ==
    IsOk(key) =>
        LET d == FromBytesBE(Unwrap(key).private)
            public == Unwrap(key).public
        IN  /\ 0 < d
            /\ d < ORDER
            /\ public.x # None
            /\ public.y # None
            /\ public = ScalarMul(d, Generator)
            /\ d = 1 => public = Generator

\* ------------------------------------------------------------------------
\* Properties of the SEC serialization
\* ------------------------------------------------------------------------

\* C6: for every finite point P, both serializers return bytes from which
\* deserialize returns P
SecRoundTrip ==
    (IsOk(point) /\ Unwrap(point).x # None) =>
        /\ sec.form # "none" =>
              IsOk(sec.out) /\ Deserialize(Unwrap(sec.out)) = Ok(Unwrap(point))
        /\ des.own => des.out = Ok(Unwrap(point))

\* C7: for every finite point, to_uncompressed_sec returns Ok(04 | X | Y)
\* and to_compressed_sec returns Ok(02 or 03 by the parity of Y | X), with X
\* and Y at their fixed width, zero bytes in front of a small coordinate
SecFixedWidth ==
    (IsOk(point) /\ Unwrap(point).x # None /\ sec.form # "none") =>
        LET X == FixedBytes(Unwrap(point).x[1].num, ScalarLen)
            Y == FixedBytes(Unwrap(point).y[1].num, ScalarLen)
            parity == IF Unwrap(point).y[1].num % 2 = 0 THEN 2 ELSE 3
        IN  sec.out = IF sec.form = "uncompressed" THEN Ok(<<4>> \o X \o Y)
                      ELSE Ok(<<parity>> \o X)

\* C8: deserialize returns an error value, neither aborting nor returning a
\* point, for input shorter than a compressed encoding, for input with
\* prefix 04 shorter than an uncompressed encoding, and for input whose
\* first byte is not 02, 03 or 04
DeserializeRejectsMalformed ==
    (des.out # NoCall /\ (\/ Len(des.input) < 1 + ScalarLen
                          \/ des.input[1] \notin {2, 3, 4}
                          \/ des.input[1] = 4 /\ Len(des.input) < 1 + 2 * ScalarLen)) =>
        des.out = Err

\* ------------------------------------------------------------------------
\* Properties of base58check
\* ------------------------------------------------------------------------

\* C9: decode_base58(encode_base58check(payload)) returns Ok(payload) for
\* every payload
Base58CheckRoundTrip ==
    b58dec # NoCall => b58dec = Ok(b58in)

\* C10: encode_base58check(payload) is the base58 encoding of payload
\* followed by the first 4 bytes of sha256(sha256(payload)), the checksum
\* that decode_base58 recomputes
Base58CheckAppendsDoubleSha ==
    b58enc # NoCall =>
        b58enc = EncodeBase58(b58in \o SubSeq(DoubleSha256(b58in), 1, ChecksumLen))

\* ------------------------------------------------------------------------
\* FieldElement: new, add, sub, mul, div, pow
\* ------------------------------------------------------------------------

\* FieldElement::new(num, prime) on the hexadecimal strings of num and prime
FeNewCall(num, prime) ==
    /\ fe.op = "none"
    /\ fe' = [NoFe EXCEPT !.op = "new", !.a = [num |-> num, prime |-> prime],
                          !.got = FieldElementNew(ToStrRadix16(num), ToStrRadix16(prime))]
    /\ UNCHANGED feBack
    /\ UNCHANGED <<keyVars, secVars, b58Vars, moreVars>>

\* FieldElement::new(num, prime) of src/field_element.rs
FeNewBigUintCall(num, prime) ==
    /\ fe.op = "none"
    /\ fe' = [NoFe EXCEPT !.op = "new_biguint", !.a = [num |-> num, prime |-> prime],
                          !.got = FieldElementNewBigUint(num, prime)]
    /\ UNCHANGED feBack
    /\ UNCHANGED <<keyVars, secVars, b58Vars, moreVars>>

\* a + b
FeAddCall(a, b) ==
    /\ fe.op = "none"
    /\ fe' = [NoFe EXCEPT !.op = "add", !.a = a, !.b = b, !.out = FeAdd(a, b)]
    /\ UNCHANGED feBack
    /\ UNCHANGED <<keyVars, secVars, b58Vars, moreVars>>

\* a - b
FeSubCall(a, b) ==
    /\ fe.op = "none"
    /\ fe' = [NoFe EXCEPT !.op = "sub", !.a = a, !.b = b, !.out = FeSub(a, b)]
    /\ UNCHANGED feBack
    /\ UNCHANGED <<keyVars, secVars, b58Vars, moreVars>>

\* a * b
FeMulCall(a, b) ==
    /\ fe.op = "none"
    /\ fe' = [NoFe EXCEPT !.op = "mul", !.a = a, !.b = b, !.out = FeMul(a, b)]
    /\ UNCHANGED feBack
    /\ UNCHANGED <<keyVars, secVars, b58Vars, moreVars>>

\* a / b
FeDivCall(a, b) ==
    /\ fe.op = "none"
    /\ fe' = [NoFe EXCEPT !.op = "div", !.a = a, !.b = b, !.out = FeDiv(a, b),
                          !.msg = FeDivMessage(a, b, FALSE),
                          !.refMsg = FeDivMessage(a, b, TRUE)]
    /\ UNCHANGED feBack
    /\ UNCHANGED <<keyVars, secVars, b58Vars, moreVars>>

\* a.pow(exponent)
FePowCall(a, exponent) ==
    /\ fe.op = "none"
    /\ fe' = [NoFe EXCEPT !.op = "pow", !.a = a, !.e = exponent, !.out = FePow(a, exponent)]
    /\ UNCHANGED feBack
    /\ UNCHANGED <<keyVars, secVars, b58Vars, moreVars>>

\* (a + b) - b, once a + b has returned
FeSubBack ==
    /\ fe.op = "add"
    /\ fe.out # FePanic
    /\ feBack = None
    /\ feBack' = Some(FeSub(fe.out, fe.b))
    /\ UNCHANGED fe
    /\ UNCHANGED <<keyVars, secVars, b58Vars, moreVars>>

\* (a * b) / b, once a * b has returned
FeDivBack ==
    /\ fe.op = "mul"
    /\ fe.out # FePanic
    /\ feBack = None
    /\ feBack' = Some(FeDiv(fe.out, fe.b))
    /\ UNCHANGED fe
    /\ UNCHANGED <<keyVars, secVars, b58Vars, moreVars>>

FieldNext ==
    \/ \E num \in 0..MaxNewValue, prime \in 0..MaxNewValue : FeNewCall(num, prime)
    \/ \E num \in 0..MaxNewValue, prime \in 0..MaxNewValue : FeNewBigUintCall(num, prime)
    \/ \E a \in FieldElements, b \in FieldElements : FeAddCall(a, b)
    \/ \E a \in FieldElements, b \in FieldElements : FeSubCall(a, b)
    \/ \E a \in FieldElements, b \in FieldElements : FeMulCall(a, b)
    \/ \E a \in FieldElements, b \in FieldElements : FeDivCall(a, b)
    \/ \E a \in FieldElements, exponent \in (-MaxExponent)..MaxExponent : FePowCall(a, exponent)
    \/ FeSubBack
    \/ FeDivBack

FieldSpec == Init /\ [][FieldNext]_vars

\* ------------------------------------------------------------------------
\* Secp256k1Point: additions and multiplications applied one after the other
\* ------------------------------------------------------------------------

\* a point accepted by Secp256k1Point::new, or the generator
WalkStart(pt) ==
    /\ walk.op = "none"
    /\ walk' = [NoWalk EXCEPT !.op = "new", !.p = pt, !.acc = pt]
    /\ UNCHANGED <<keyVars, secVars, b58Vars, feVars, sig, gpoint>>

\* Secp256k1Point { x: Some(x), y: Some(0) } added to itself
WalkAddFlat(x, byRef) ==
    /\ walk.op = "none"
    /\ walk' = [NoWalk EXCEPT
                  !.op = "flat",
                  !.p = [x |-> Some(Fe(x)), y |-> Some(Fe(0))],
                  !.q = [x |-> Some(Fe(x)), y |-> Some(Fe(0))],
                  !.acc = IF byRef
                          THEN PointAddRef([x |-> Some(Fe(x)), y |-> Some(Fe(0))],
                                           [x |-> Some(Fe(x)), y |-> Some(Fe(0))])
                          ELSE PointAdd([x |-> Some(Fe(x)), y |-> Some(Fe(0))],
                                        [x |-> Some(Fe(x)), y |-> Some(Fe(0))])]
    /\ UNCHANGED <<keyVars, secVars, b58Vars, feVars, sig, gpoint>>

\* self + other, owned or by reference, where one of the two is the point
\* reached so far
WalkAdd(self, other, byRef) ==
    /\ walk.op # "none"
    /\ walk.steps < MaxWalkSteps
    /\ walk.acc # PointPanic
    /\ walk' = [steps |-> walk.steps + 1, op |-> "add", p |-> self, q |-> other, k |-> 0,
                acc |-> IF byRef THEN PointAddRef(self, other) ELSE PointAdd(self, other)]
    /\ UNCHANGED <<keyVars, secVars, b58Vars, feVars, sig, gpoint>>

\* the point reached so far times coefficient, in any of the five Mul forms
WalkMul(coefficient) ==
    /\ walk.op # "none"
    /\ walk.steps < MaxWalkSteps
    /\ walk.acc # PointPanic
    /\ walk' = [steps |-> walk.steps + 1, op |-> "mul", p |-> walk.acc, q |-> Infinity,
                k |-> coefficient, acc |-> ScalarMul(coefficient, walk.acc)]
    /\ UNCHANGED <<keyVars, secVars, b58Vars, feVars, sig, gpoint>>

CurveNext ==
    \/ \E pt \in StartPoints : WalkStart(pt)
    \/ \E x \in 0..MaxNewCoord, byRef \in BOOLEAN : WalkAddFlat(x, byRef)
    \/ \E other \in WalkOperands(walk.acc), byRef \in BOOLEAN : WalkAdd(walk.acc, other, byRef)
    \/ \E self \in WalkOperands(walk.acc), byRef \in BOOLEAN : WalkAdd(self, walk.acc, byRef)
    \/ \E coefficient \in WalkScalars : WalkMul(coefficient)

CurveSpec == Init /\ [][CurveNext]_vars

\* ------------------------------------------------------------------------
\* Signature: der and from_biguint
\* ------------------------------------------------------------------------

\* Signature { r, s }.der()
DerCall(r, s) ==
    /\ sig.op = "none"
    /\ sig' = [NoSig EXCEPT !.op = "der", !.r = r, !.s = s, !.out = Der([r |-> r, s |-> s])]
    /\ UNCHANGED <<keyVars, secVars, b58Vars, feVars, walk, gpoint>>

\* Signature::from_biguint(r, s)
FromBigUintCall(r, s) ==
    /\ sig.op = "none"
    /\ sig' = [NoSig EXCEPT !.op = "from_biguint", !.rNum = r, !.sNum = s,
                            !.out = SignatureFromBigUint(r, s)]
    /\ UNCHANGED <<keyVars, secVars, b58Vars, feVars, walk, gpoint>>

SigNext ==
    \/ \E r \in DerElements, s \in DerElements : DerCall(r, s)
    \/ \E r \in SigValues, s \in SigValues : FromBigUintCall(r, s)

SigSpec == Init /\ [][SigNext]_vars

\* ------------------------------------------------------------------------
\* Point: new and add
\* ------------------------------------------------------------------------

\* Point::new(x, y, a, b)
PointNewCall(x, y, a, b) ==
    /\ gpoint.op = "none"
    /\ gpoint' = [NoGPoint EXCEPT !.op = "new", !.x = x, !.y = y, !.a = a, !.b = b,
                                  !.made = GenericPointNew(x, y, a, b)]
    /\ UNCHANGED <<keyVars, secVars, b58Vars, feVars, walk, sig>>

\* the point of Point::new + other
PointAddCall(other) ==
    /\ gpoint.op = "new"
    /\ IsOk(gpoint.made)
    /\ gpoint' = [gpoint EXCEPT !.op = "add", !.other = other,
                                !.out = GenericPointAdd(Unwrap(gpoint.made), other)]
    /\ UNCHANGED <<keyVars, secVars, b58Vars, feVars, walk, sig>>

PointNext ==
    \/ \E p \in PointFields :
         \E x \in PointCoords(p), y \in PointCoords(p), c \in Curves(p) :
            PointNewCall(x, y, c[1], c[2])
    \/ \E other \in PointsOver(gpoint.a.prime) : PointAddCall(other)

PointSpec == Init /\ [][PointNext]_vars

\* C11: decode_base58 returns Err for a string with a character outside the
\* alphabet, for a string of fewer than four bytes and for a string whose
\* last four bytes are not the first four bytes of the double SHA-256 of the
\* bytes before them, so also after any one checksum byte was changed;
\* otherwise it returns the bytes before the checksum.
DecodeRejectsOrReturnsData ==
    b58call.op = "decode" =>
        /\ b58call.kind \in {"foreign", "short", "flipped"} => b58call.out = Err
        /\ b58call.kind = "valid" => b58call.out = Ok(b58call.payload)
        /\ b58call.out \in {Err, Ok(b58call.payload)}

DecodeRejectedFlippedChecksum ==
    /\ b58call.op = "decode"
    /\ b58call.kind = "flipped"
    /\ b58call.payload # <<>>
    /\ b58call.out = Err

\* C12: encode_base58(bytes) is one '1' for each leading zero byte, then the
\* base-58 digits of the big-endian integer of the bytes, most significant
\* first and none when the integer is 0.
EncodePlainIsOnesThenDigits ==
    b58call.op = "encode" =>
        /\ IsOk(b58call.out)
        /\ LET bytes == b58call.payload
               text == Unwrap(b58call.out)
               zeros == CHOOSE n \in 0..Len(bytes) :
                            /\ \A i \in 1..n : bytes[i] = 0
                            /\ n = Len(bytes) \/ bytes[n + 1] # 0
               digits == SubSeq(text, zeros + 1, Len(text))
               value[k \in 0..Len(digits)] ==
                   IF k = 0 THEN 0 ELSE value[k - 1] * 58 + AlphabetFind(digits[k])
           IN  /\ Len(text) >= zeros
               /\ \A i \in 1..zeros : text[i] = "1"
               /\ \A i \in 1..Len(digits) : AlphabetFind(digits[i]) \in 0..57
               /\ digits # <<>> => digits[1] # "1"
               /\ value[Len(digits)] = FromBytesBE(bytes)

EncodePlainHadLeadingZeros ==
    /\ b58call.op = "encode"
    /\ Len(b58call.payload) = MaxEncodeLen
    /\ b58call.payload[1] = 0
    /\ b58call.payload[2] = 0
    /\ b58call.payload[MaxEncodeLen] = 127
    /\ IsOk(b58call.out)
    /\ Len(Unwrap(b58call.out)) = MaxEncodeLen + 1

\* C13: FieldElement::new(num, prime) returns Ok, with the element of that
\* num and prime, exactly when num < prime; when num = prime or num > prime
\* it returns Err.
NewOkExactlyBelowPrime ==
    fe.op \in {"new", "new_biguint"} =>
        IF fe.a.num < fe.a.prime THEN fe.got = Ok(fe.a) ELSE fe.got = Err

\* C14: for operands of one field, what add, sub, mul, div by a non-zero
\* divisor and pow return has the operands' prime and a num in [0, prime)
\* that is the sum, difference, product, quotient or power modulo prime.
OperationsStayInField ==
    LET p == fe.a.prime
        n == IF fe.e < 0 THEN -fe.e ELSE fe.e
        power[k \in 0..n] == IF k = 0 THEN 1 ELSE (power[k - 1] * fe.a.num) % p
        InField == fe.out.prime = p /\ fe.out.num \in 0..(p - 1)
    IN  /\ fe.op = "add" /\ fe.b.prime = p =>
            InField /\ fe.out.num = (fe.a.num + fe.b.num) % p
        /\ fe.op = "sub" /\ fe.b.prime = p =>
            InField /\ (fe.out.num + fe.b.num) % p = fe.a.num
        /\ fe.op = "mul" /\ fe.b.prime = p =>
            InField /\ fe.out.num = (fe.a.num * fe.b.num) % p
        /\ fe.op = "div" /\ fe.b.prime = p /\ fe.b.num # 0 =>
            InField /\ (fe.out.num * fe.b.num) % p = fe.a.num
        /\ fe.op = "pow" /\ fe.e >= 0 =>
            InField /\ fe.out.num = power[n]
        /\ fe.op = "pow" /\ fe.e < 0 /\ fe.out # FePanic =>
            InField /\ (fe.a.num # 0 => (fe.out.num * power[n]) % p = 1)

MulWasReduced ==
    /\ fe.op = "mul"
    /\ fe.a.prime = fe.b.prime
    /\ fe.a.num * fe.b.num >= 2 * fe.a.prime
    /\ fe.out.prime = fe.a.prime
    /\ fe.out.num < fe.a.prime

\* C15: (a + b) - b = a for all elements a and b of a field, and
\* (a * b) / b = a for all a and all b other than zero.
AddSubAndMulDivUndo ==
    /\ fe.op = "add" /\ feBack # None => feBack = Some(fe.a)
    /\ fe.op = "mul" /\ feBack # None /\ fe.b.num # 0 => feBack = Some(fe.a)

SubUndidWrappedAdd ==
    /\ fe.op = "add"
    /\ fe.b.num > 0
    /\ fe.a.num + fe.b.num > fe.a.prime
    /\ fe.out.num < fe.b.num
    /\ feBack = Some(fe.a)

\* C16: a.pow(p - 1) is the element 1 for every non-zero element a of the
\* field of modulus p.
PowFermat ==
    fe.op = "pow" /\ fe.a.num # 0 /\ fe.e = fe.a.prime - 1 =>
        fe.out = [num |-> 1, prime |-> fe.a.prime]

PowFermatComputed ==
    /\ fe.op = "pow"
    /\ fe.a.num > 1
    /\ fe.a.prime > 3
    /\ fe.e = fe.a.prime - 1
    /\ fe.out = [num |-> 1, prime |-> fe.a.prime]

\* C17: pow accepts any negative exponent: for every non-zero a and every
\* e < 0, a.pow(e) returns the element of a's field that times a^|e| is 1.
PowAcceptsAnyNegativeExponent ==
    fe.op = "pow" /\ fe.a.num # 0 /\ fe.e < 0 =>
        LET power[k \in 0..(-fe.e)] ==
                IF k = 0 THEN 1 ELSE (power[k - 1] * fe.a.num) % fe.a.prime
        IN  /\ fe.out # FePanic
            /\ fe.out.prime = fe.a.prime
            /\ (fe.out.num * power[-fe.e]) % fe.a.prime = 1

\* C18: add, sub, mul and div return no element when the primes of the two
\* operands differ, div returns none when the divisor's num is 0, and div
\* reports the differing primes when both hold.
MismatchAndZeroDivisorFail ==
    /\ fe.op \in {"add", "sub", "mul", "div"} /\ fe.a.prime # fe.b.prime =>
           fe.out = FePanic
    /\ fe.op = "div" /\ fe.b.num = 0 => fe.out = FePanic
    /\ fe.op = "div" /\ fe.a.prime # fe.b.prime /\ fe.b.num = 0 =>
           /\ fe.msg = "Cannot divide numbers from different fields"
           /\ fe.refMsg = "Cannot divide elements from different fields"
    /\ fe.op = "div" /\ fe.a.prime = fe.b.prime /\ fe.b.num = 0 =>
           /\ fe.msg = "Cannot divide by zero in a finite field"
           /\ fe.refMsg = "Cannot divide by zero in a finite field"

DivFailedOnBothCounts ==
    /\ fe.op = "div"
    /\ fe.a.prime # fe.b.prime
    /\ fe.b.num = 0
    /\ fe.a.num # 0
    /\ fe.out = FePanic
    /\ fe.msg # "Cannot divide by zero in a finite field"

\* C19: Secp256k1Point::new(x, y) returns Ok(infinity) when both coordinates
\* are absent, Err when exactly one is present, and with both present Ok of
\* the point exactly when y^2 = x^3 + 7 modulo p, and Err otherwise.
NewPointDecidesByEquation ==
    made.called =>
        IF made.x = None /\ made.y = None THEN point = Ok(Infinity)
        ELSE IF made.x = None \/ made.y = None THEN point = Err
        ELSE IF MulMod(made.y[1].num, made.y[1].num, PRIME)
                  = (MulMod(MulMod(made.x[1].num, made.x[1].num, PRIME),
                            made.x[1].num, PRIME) + 7) % PRIME
             THEN point = Ok([x |-> made.x, y |-> made.y])
             ELSE point = Err

\* C20: the point at infinity is the identity of the addition: P + infinity
\* and infinity + P are P for every valid point P, finite or at infinity,
\* in the owned and in the by-reference add.
InfinityIsIdentity ==
    sum.called =>
        /\ sum.right = Unwrap(point)
        /\ sum.left = Unwrap(point)
        /\ sum.rightRef = Unwrap(point)
        /\ sum.leftRef = Unwrap(point)

InfinityAddedToFinitePoint ==
    /\ sum.called
    /\ Unwrap(point).x # None
    /\ sum.left = Unwrap(point)
    /\ sum.leftRef = Unwrap(point)
    /\ sum.leftRef # Infinity

\* C21: a finite point (x, y) with y other than zero and the point (x, p - y)
\* add up to the point at infinity in either order, and so does a point with
\* y = 0 added to itself.
NegationSumsToInfinity ==
    /\ walk.op = "flat" => walk.acc = Infinity
    /\ ( /\ walk.op = "add"
         /\ walk.p.x # None
         /\ walk.p.x = walk.q.x
         /\ walk.p.y[1].num # 0
         /\ walk.q.y[1].num = PRIME - walk.p.y[1].num ) => walk.acc = Infinity

NegationWasAdded ==
    /\ walk.op = "add"
    /\ walk.p.x # None
    /\ walk.p.x = walk.q.x
    /\ walk.p.y # walk.q.y
    /\ walk.q.y[1].num = PRIME - walk.p.y[1].num
    /\ walk.acc = Infinity

\* C22: the product of a curve point P and a coefficient k is P added to
\* itself k times with the point add; it is infinity for k = 0 and P for
\* k = 1.
MulIsRepeatedAdd ==
    walk.op = "mul" /\ walk.k <= MaxWalkScalar =>
        LET repeated[i \in 0..walk.k] ==
                IF i = 0 THEN Infinity ELSE PointAdd(repeated[i - 1], walk.p)
        IN  /\ walk.acc = repeated[walk.k]
            /\ walk.k = 0 => walk.acc = Infinity
            /\ walk.k = 1 => walk.acc = walk.p

MulOfFinitePoint ==
    /\ walk.op = "mul"
    /\ walk.k = MaxWalkScalar
    /\ walk.p.x # None
    /\ walk.p # Generator
    /\ walk.acc.x # None
    /\ walk.acc # walk.p
    /\ walk.acc # PointPanic

\* C23: the generator times the group order is the point at infinity, with
\* the operands in either order.
OrderTimesGeneratorIsInfinity ==
    walk.op = "mul" /\ walk.p = Generator /\ walk.k = AsBigUint("Order") =>
        walk.acc = Infinity

GeneratorMultipliedByOrder ==
    /\ walk.op = "mul"
    /\ walk.p = Generator
    /\ walk.k = ORDER
    /\ walk.acc = Infinity

\* C26: every point that additions and multiplications produce from points
\* Secp256k1Point::new accepted is the point at infinity, or has two
\* coordinates in [0, p) with y^2 = x^3 + 7 modulo p; no addition ends in a
\* division by zero.
ProducedPointsOnCurve ==
    walk.op \in {"new", "add", "mul"} =>
        /\ walk.acc # PointPanic
        /\ \/ walk.acc = Infinity
           \/ /\ walk.acc.x # None
              /\ walk.acc.y # None
              /\ walk.acc.x[1].prime = PRIME
              /\ walk.acc.y[1].prime = PRIME
              /\ walk.acc.x[1].num \in 0..(PRIME - 1)
              /\ walk.acc.y[1].num \in 0..(PRIME - 1)
              /\ MulMod(walk.acc.y[1].num, walk.acc.y[1].num, PRIME)
                   = (MulMod(MulMod(walk.acc.x[1].num, walk.acc.x[1].num, PRIME),
                             walk.acc.x[1].num, PRIME) + 7) % PRIME

ChordAfterDoubling ==
    /\ walk.steps = 2
    /\ walk.op = "add"
    /\ walk.p.x # None
    /\ walk.q.x # None
    /\ walk.p.x # walk.q.x
    /\ walk.acc.x # None
    /\ walk.acc # PointPanic
    /\ walk.p = ScalarMul(2, walk.q)

DerErrOrTrueLengths ==
    sig.op = "der" =>
        /\ sig.r = <<>> \/ sig.s = <<>> => sig.out = Err
        /\ ( /\ sig.r # <<>>
             /\ sig.s # <<>>
             /\ 2 + Len(sig.r) + (IF sig.r[1] >= 128 THEN 1 ELSE 0)
                  + 2 + Len(sig.s) + (IF sig.s[1] >= 128 THEN 1 ELSE 0) > 255 )
               => sig.out = Err
        /\ IsOk(sig.out) =>
               LET enc == Unwrap(sig.out)
                   r_len == enc[4]
                   s_len == enc[4 + r_len + 2]
               IN  /\ enc[2] = Len(enc) - 2
                   /\ r_len \in {Len(sig.r), Len(sig.r) + 1}
                   /\ s_len \in {Len(sig.s), Len(sig.s) + 1}
                   /\ 4 + r_len + 2 + s_len = Len(enc)
                   /\ SubSeq(enc, 5 + r_len - Len(sig.r), 4 + r_len) = sig.r
                   /\ SubSeq(enc, Len(enc) - Len(sig.s) + 1, Len(enc)) = sig.s

DerRejectedLongParts ==
    /\ sig.op = "der"
    /\ Len(sig.r) = 125
    /\ Len(sig.s) = 125
    /\ sig.r[1] >= 128
    /\ sig.s[1] >= 128
    /\ sig.out = Err

\* C28: Signature::from_biguint(r, s) returns a Signature for every r and s
\* in [0, N), with r in 32 or 33 bytes and s in 32 bytes (two or three and
\* two in the scaled model) whose big-endian values are r and s.
FromBigUintIsTotal ==
    sig.op = "from_biguint" =>
        /\ IsOk(sig.out)
        /\ Len(Unwrap(sig.out).r) \in {ScalarLen, ScalarLen + 1}
        /\ Len(Unwrap(sig.out).s) = ScalarLen
        /\ FromBytesBE(Unwrap(sig.out).r) = sig.rNum
        /\ FromBytesBE(Unwrap(sig.out).s) = sig.sNum

\* C27: deterministic_k never aborts: each iteration of its loop takes the
\* candidate V = HMAC(K, V); a candidate with 1 <= V < N, values below 2^248
\* included, is returned as Ok of its bytes, and any other candidate is
\* followed by K = HMAC(K, V | 0x00), V = HMAC(K, V) and another iteration.
DeterministicKReturnsFirstCandidate ==
    [][ pc = "loop" /\ cur.op = "deterministic_k" =>
          IF /\ FromBytesBE(Hmac256(hmacSt.k_bytes, <<hmacSt.v_bytes>>)) >= 1
             /\ FromBytesBE(Hmac256(hmacSt.k_bytes, <<hmacSt.v_bytes>>)) < ORDER
          THEN /\ pc' = "idle"
               /\ ret'.op = "deterministic_k"
               /\ ret'.out = Ok(Hmac256(hmacSt.k_bytes, <<hmacSt.v_bytes>>))
          ELSE /\ pc' = "loop"
               /\ hmacSt'.k_bytes
                    = Hmac256(hmacSt.k_bytes,
                              <<Hmac256(hmacSt.k_bytes, <<hmacSt.v_bytes>>), <<0>>>>)
               /\ hmacSt'.v_bytes
                    = Hmac256(hmacSt'.k_bytes,
                              <<Hmac256(hmacSt.k_bytes, <<hmacSt.v_bytes>>)>>) ]_vars

\* C29: every point that deserialize returns as Ok is a finite point of the
\* curve: x and y are below p and y^2 = x^3 + 7 (mod p), and for a
\* compressed input y is even under the prefix 0x02 and odd under 0x03; an
\* input whose x has no matching y, or whose coordinates are not below p, is
\* not returned as a point.
DeserializedPointIsOnCurve ==
    IsOk(des.out) =>
        /\ Unwrap(des.out).x # None
        /\ Unwrap(des.out).y # None
        /\ Unwrap(des.out).x[1].num < AsBigUint("Prime")
        /\ Unwrap(des.out).y[1].num < AsBigUint("Prime")
        /\ MulMod(Unwrap(des.out).y[1].num, Unwrap(des.out).y[1].num, AsBigUint("Prime"))
             = (ModPow(Unwrap(des.out).x[1].num, 3, AsBigUint("Prime")) + 7)
                 % AsBigUint("Prime")
        /\ des.input[1] = 2 => Unwrap(des.out).y[1].num % 2 = 0
        /\ des.input[1] = 3 => Unwrap(des.out).y[1].num % 2 = 1

\* C30: adding two valid points of the same curve y^2 = x^3 + a*x + b
\* never aborts and gives a valid point of that curve: the other operand
\* when one is infinity; infinity, with both coordinates absent, when the x
\* are equal and the y differ; the doubled point when the points are equal;
\* and for different x the point x3 = s^2 - x1 - x2, y3 = s*(x1 - x3) - y1
\* with s = (y2 - y1)/(x2 - x1).
GenericAddIsGroupLaw ==
    (gpoint.op = "add" /\ gpoint.other.a = gpoint.a /\ gpoint.other.b = gpoint.b) =>
        /\ gpoint.out # GenericPointPanic
        /\ gpoint.out.a = gpoint.a
        /\ gpoint.out.b = gpoint.b
        /\ IsOk(GenericPointNew(gpoint.out.x, gpoint.out.y, gpoint.a, gpoint.b))
        /\ gpoint.x = None => gpoint.out = gpoint.other
        /\ gpoint.other.x = None => gpoint.out = Unwrap(gpoint.made)
        /\ (/\ gpoint.x # None
            /\ gpoint.x = gpoint.other.x
            /\ gpoint.y # gpoint.other.y) =>
               gpoint.out.x = None /\ gpoint.out.y = None
        /\ (gpoint.x # None /\ gpoint.other.x # None /\ gpoint.x # gpoint.other.x) =>
             LET s == FeDiv(FeSub(gpoint.other.y[1], gpoint.y[1]),
                            FeSub(gpoint.other.x[1], gpoint.x[1]))
                 x3 == FeSub(FeSub(FePow(s, 2), gpoint.x[1]), gpoint.other.x[1])
             IN  /\ gpoint.out.x = Some(x3)
                 /\ gpoint.out.y = Some(FeSub(FeMul(s, FeSub(gpoint.x[1], x3)), gpoint.y[1]))

====
